---- MODULE Spec2Model ----
(***************************************************************************)
(* A model of run.py: the Telegram trade calculator bot.                   *)
(*                                                                         *)
(*   - ParseSignal and GetTradeInformation, the pure helpers, computed on  *)
(*     the characters of the message text;                                 *)
(*   - the ConversationHandler of main() with its callbacks start,         *)
(*     calculate, yes, no and the stand-alone help_command (Spec);         *)
(*   - one invocation of the coroutine ConnectMetaTrader, statement by     *)
(*     statement (SpecRun).                                                *)
(*                                                                         *)
(* Conventions.  A Python float is modelled by the exact decimal it was    *)
(* written as, scaled by Scale (a price 1.2000 is 120000); round() is      *)
(* round-half-to-even and math.floor is the floor of the exact quotient.   *)
(* An uncaught Python exception is an outcome [raised |-> <its class>].    *)
(* Line 98 of run.py lacks its closing parenthesis; it is read as          *)
(*     trade['TP'].append(float(signal[4].split()[-1]))                    *)
(***************************************************************************)
EXTENDS Integers, Sequences, FiniteSets, TLC

VARIABLES
    state,          \* conversation state kept by the ConversationHandler
    user_data,      \* context.user_data of the conversation's user
    RISK_FACTOR,    \* the module constant of line 44, in percent
    last,           \* the last update dispatched, what its callback did, and
                    \* the callback of the update before it
    runs,           \* the invocations of ConnectMetaTrader, in call order
    nextConn        \* connections handed out so far by the broker SDK

vars == <<state, user_data, RISK_FACTOR, last, runs, nextConn>>

-----------------------------------------------------------------------------
(* Characters and strings (str.lower, str.upper, str.rstrip, str.split,    *)
(* str.splitlines, the `in` operator, str.index).                          *)

UpperLetters == "ABCDEFGHIJKLMNOPQRSTUVWXYZ"
LowerLetters == "abcdefghijklmnopqrstuvwxyz"
Digits == "0123456789"

Ch(s, i) == SubSeq(s, i, i)

\* 0 when c does not occur in alphabet, else its 1-based position
PosIn(c, alphabet) ==
    IF \E i \in 1..Len(alphabet) : Ch(alphabet, i) = c
    THEN CHOOSE i \in 1..Len(alphabet) : Ch(alphabet, i) = c
    ELSE 0

LowerCh(c) ==
    IF PosIn(c, UpperLetters) > 0 THEN Ch(LowerLetters, PosIn(c, UpperLetters)) ELSE c

UpperCh(c) ==
    IF PosIn(c, LowerLetters) > 0 THEN Ch(UpperLetters, PosIn(c, LowerLetters)) ELSE c

RECURSIVE lower(_)
lower(s) == IF Len(s) = 0 THEN "" ELSE LowerCh(Ch(s, 1)) \o lower(SubSeq(s, 2, Len(s)))

RECURSIVE upper(_)
upper(s) == IF Len(s) = 0 THEN "" ELSE UpperCh(Ch(s, 1)) \o upper(SubSeq(s, 2, Len(s)))

IsSpace(c) == c \in {" ", "\t", "\n", "\r", "\f"}

IsLineBreak(c) == c \in {"\n", "\r", "\f"}

RECURSIVE rstrip(_)
rstrip(s) ==
    IF Len(s) > 0 /\ IsSpace(Ch(s, Len(s))) THEN rstrip(SubSeq(s, 1, Len(s) - 1)) ELSE s

\* needle in hay
Contains(hay, needle) ==
    \E i \in 1..(Len(hay) - Len(needle) + 1) : SubSeq(hay, i, i + Len(needle) - 1) = needle

\* s.index(c): the 0-based position of the first c, or -1 where Python raises ValueError
index(s, c) ==
    IF \E i \in 1..Len(s) : Ch(s, i) = c
    THEN (CHOOSE i \in 1..Len(s) : Ch(s, i) = c /\ \A j \in 1..(i - 1) : Ch(s, j) # c) - 1
    ELSE 0 - 1

\* str.splitlines(): the lines of s, the line breaks dropped, and no empty
\* last line after a final line break ("\r\n" is one line break)
RECURSIVE splitlines(_)
splitlines(s) ==
    IF Len(s) = 0 THEN <<>>
    ELSE IF \E i \in 1..Len(s) : IsLineBreak(Ch(s, i))
    THEN LET i == CHOOSE k \in 1..Len(s) :
                     IsLineBreak(Ch(s, k)) /\ \A j \in 1..(k - 1) : ~IsLineBreak(Ch(s, j))
             skip == IF Ch(s, i) = "\r" /\ i < Len(s) /\ Ch(s, i + 1) = "\n" THEN 2 ELSE 1
         IN  <<SubSeq(s, 1, i - 1)>> \o splitlines(SubSeq(s, i + skip, Len(s)))
    ELSE <<s>>

\* s.split(): the maximal runs of non-whitespace characters of s
RECURSIVE split(_)
split(s) ==
    LET t == rstrip(s) IN
    IF Len(t) = 0 THEN <<>>
    ELSE LET start == IF \E i \in 1..Len(t) : IsSpace(Ch(t, i))
                      THEN 1 + CHOOSE i \in 1..Len(t) :
                               IsSpace(Ch(t, i)) /\ \A j \in (i + 1)..Len(t) : ~IsSpace(Ch(t, j))
                      ELSE 1
         IN  split(SubSeq(t, 1, start - 1)) \o <<SubSeq(t, start, Len(t))>>

-----------------------------------------------------------------------------
(* float(token)                                                            *)

\* the number of decimal places a modelled float keeps
ScaleDigits == 5

RECURSIVE Pow10(_)
Pow10(n) == IF n = 0 THEN 1 ELSE 10 * Pow10(n - 1)

Scale == Pow10(ScaleDigits)

AllDigits(s) == \A i \in 1..Len(s) : PosIn(Ch(s, i), Digits) > 0

RECURSIVE DigitsValue(_)
DigitsValue(s) ==
    IF Len(s) = 0 THEN 0
    ELSE 10 * DigitsValue(SubSeq(s, 1, Len(s) - 1)) + (PosIn(Ch(s, Len(s)), Digits) - 1)

\* the part of a float literal after its sign
Unsigned(tok) == IF Len(tok) > 0 /\ Ch(tok, 1) \in {"+", "-"} THEN SubSeq(tok, 2, Len(tok)) ELSE tok

IntPart(u) == IF index(u, ".") >= 0 THEN SubSeq(u, 1, index(u, ".")) ELSE u

FracPart(u) == IF index(u, ".") >= 0 THEN SubSeq(u, index(u, ".") + 2, Len(u)) ELSE ""

\* float(tok) succeeds: an optional sign, digits with at most one point, one
\* digit at least (exponents, inf, nan and underscores are outside the inputs
\* drawn here)
IsFloat(tok) ==
    LET u == Unsigned(tok) IN
    /\ AllDigits(IntPart(u))
    /\ AllDigits(FracPart(u))
    /\ Len(IntPart(u)) + Len(FracPart(u)) > 0

\* float(tok), scaled by Scale
float(tok) ==
    LET u    == Unsigned(tok)
        frac == FracPart(u)
        f    == IF Len(frac) >= ScaleDigits
                THEN DigitsValue(SubSeq(frac, 1, ScaleDigits))
                ELSE DigitsValue(frac) * Pow10(ScaleDigits - Len(frac))
        mag  == DigitsValue(IntPart(u)) * Scale + f
    IN  IF Len(tok) > 0 /\ Ch(tok, 1) = "-" THEN 0 - mag ELSE mag

Abs(n) == IF n < 0 THEN 0 - n ELSE n

\* the number of decimal digits of n >= 0
RECURSIVE NumDigits(_)
NumDigits(n) == IF n < 10 THEN 1 ELSE 1 + NumDigits(n \div 10)

\* str(x).index('.') for a float x: the sign, then the digits of the integer part
FloatPointIndex(x) == (IF x < 0 THEN 1 ELSE 0) + NumDigits(Abs(x) \div Scale)

\* round(n / d) for d > 0: to the nearest integer, a tie to the even one
round(n, d) ==
    LET q == Abs(n) \div d
        r == Abs(n) % d
        m == IF 2 * r > d \/ (2 * r = d /\ q % 2 = 1) THEN q + 1 ELSE q
    IN  IF n < 0 THEN 0 - m ELSE m

-----------------------------------------------------------------------------
(* Module-level data of run.py                                             *)

\* the names bound at module level (imports, assignments, defs); a name that
\* is neither local nor in this set raises NameError when it is evaluated
GlobalNames ==
    {"asyncio", "logging", "math", "os", "Literal", "MetaApi", "PrettyTable",
     "ParseMode", "Update", "CommandHandler", "Filters", "MessageHandler",
     "Updater", "ConversationHandler", "CallbackContext", "API_KEY",
     "ACCOUNT_ID", "TOKEN", "TELEGRAM_USER", "APP_URL", "PORT", "logger",
     "CALCULATE", "TRADE", "DECISION", "SYMBOLS", "RISK_FACTOR", "ParseSignal",
     "GetTradeInformation", "CreateTable", "ConnectMetaTrader", "start",
     "help_command", "calculate", "yes", "no", "error", "main"}

\* as if every name used were bound (a module-level `context`, `api`)
NameDefinedAlways(name) == TRUE

NameDefined(name) == name \in GlobalNames

\* CALCULATE, TRADE, DECISION = range(3); ConversationHandler.END
CALCULATE == 0
TRADE == 1
DECISION == 2
END == -1

SYMBOLS ==
    {"BTCUSD", "AUDCHF", "AUDJPY", "AUDNZD", "AUDUSD", "CADCHF", "CADJPY",
     "CHFJPY", "EURAUD", "EURCAD", "EURCHF", "EURGBP", "EURJPY", "EURNZD",
     "EURUSD", "GBPAUD", "GBPCAD", "GBPCHF", "GBPJPY", "GBPNZD", "GBPUSD",
     "NOW", "NZDCAD", "NZDCHF", "NZDJPY", "NZDUSD", "USDCAD", "USDCHF",
     "USDJPY", "XAGUSD", "XAUUSD"}

\* the chain with the generic phrases tested first
OrderTypesGenericFirst ==
    <<"Buy", "Sell", "Buy Limit", "Sell Limit", "Buy Stop", "Sell Stop">>

\* the phrases of lines 65-76, in the order the if/elif chain tests them
OrderTypes == <<"Buy Limit", "Sell Limit", "Buy Stop", "Sell Stop", "Buy", "Sell">>

-----------------------------------------------------------------------------
(* ParseSignal                                                             *)

Raised(exc) == [raised |-> exc, trade |-> <<>>]

\* a returned dict: <<>> is the empty dict {}, <<t>> the dict t
Returned(d) == [raised |-> "", trade |-> d]

Last(seq) == seq[Len(seq)]

\* the first phrase of OrderTypes the line contains, compared in lower case
\* ("" when it contains none)
OrderTypeOf(line) ==
    LET hits == {i \in 1..Len(OrderTypes) : Contains(lower(line), lower(OrderTypes[i]))}
    IN  IF hits = {} THEN ""
        ELSE OrderTypes[CHOOSE i \in hits : \A j \in hits : i <= j]

StrEntry(tok) == [isFloat |-> FALSE, str |-> tok, val |-> 0]

FloatEntry(x) == [isFloat |-> TRUE, str |-> "", val |-> x]

IsMarket(orderType) == orderType = "Buy" \/ orderType = "Sell"

\* signal[i].split()[-1] raises IndexError: no such line, or a blank one
NoLastToken(signal, i) == Len(signal) < i \/ split(signal[i]) = <<>>

\* the last token of the line as it was typed
SymbolOfAsTyped(line) == Last(split(line))

\* (signal[0].split())[-1].upper()
SymbolOf(line) == upper(Last(split(line)))

\* `riskFactor` is the module's RISK_FACTOR, read at line 101
ParseSignal(text, riskFactor) ==
    LET lines  == splitlines(text)
        signal == [i \in 1..Len(lines) |-> rstrip(lines[i])]
    IN
    IF Len(signal) = 0 THEN Raised("IndexError")
    ELSE IF OrderTypeOf(signal[1]) = "" THEN Returned(<<>>)
    ELSE IF SymbolOf(signal[1]) \notin SYMBOLS THEN Returned(<<>>)
    ELSE IF NoLastToken(signal, 2) THEN Raised("IndexError")
    ELSE IF ~IsMarket(OrderTypeOf(signal[1])) /\ ~IsFloat(Last(split(signal[2])))
         THEN Raised("ValueError")
    ELSE IF NoLastToken(signal, 3) THEN Raised("IndexError")
    ELSE IF ~IsFloat(Last(split(signal[3]))) THEN Raised("ValueError")
    ELSE IF NoLastToken(signal, 4) THEN Raised("IndexError")
    ELSE IF ~IsFloat(Last(split(signal[4]))) THEN Raised("ValueError")
    ELSE IF Len(signal) > 4 /\ split(signal[5]) = <<>> THEN Raised("IndexError")
    ELSE IF Len(signal) > 4 /\ ~IsFloat(Last(split(signal[5]))) THEN Raised("ValueError")
    ELSE Returned(<<[
             OrderType    |-> OrderTypeOf(signal[1]),
             Symbol       |-> SymbolOf(signal[1]),
             Entry        |-> IF IsMarket(OrderTypeOf(signal[1]))
                              THEN StrEntry(Last(split(signal[2])))
                              ELSE FloatEntry(float(Last(split(signal[2])))),
             StopLoss     |-> float(Last(split(signal[3]))),
             TP           |-> IF Len(signal) > 4
                              THEN <<float(Last(split(signal[4]))), float(Last(split(signal[5])))>>
                              ELSE <<float(Last(split(signal[4])))>>,
             RiskFactor   |-> riskFactor,
             sized        |-> FALSE,      \* no key 'PositionSize' yet
             PositionSize |-> 0 ]>>)

-----------------------------------------------------------------------------
(* GetTradeInformation                                                     *)

\* takeProfitPips = [50]
AutoTakeProfitPips == 50

\* the pip size of a two-decimal quote, whatever the entry looks like
MultiplierTwoDecimals(trade) == Scale \div 100

\* the pip size, scaled by Scale; 0 where line 120 raises ValueError
\* ('.' is not in str(trade['Entry']))
Multiplier(trade) ==
    IF trade.Symbol = "XAUUSD" THEN Scale \div 10
    ELSE IF trade.Symbol = "XAGUSD" THEN Scale \div 1000
    ELSE IF ~trade.Entry.isFloat /\ index(trade.Entry.str, ".") < 0 THEN 0
    ELSE IF (IF trade.Entry.isFloat THEN FloatPointIndex(trade.Entry.val)
                                    ELSE index(trade.Entry.str, ".")) >= 2
         THEN Scale \div 100
    ELSE Scale \div 10000

\* abs(round((trade['StopLoss'] - trade['Entry']) / multiplier))
StopLossPips(trade) == Abs(round(trade.StopLoss - trade.Entry.val, Multiplier(trade)))

\* the position size rounded up to the lot step instead of down
PositionSizeOfRoundsUp(balance, riskFactor, stopLossPips) ==
    (balance * riskFactor + 10 * stopLossPips - 1) \div (10 * stopLossPips)

\* math.floor(((balance * RiskFactor) / stopLossPips) / 10 * 100) / 100, in
\* hundredths of a lot; RiskFactor is in percent
PositionSizeOf(balance, riskFactor, stopLossPips) ==
    (balance * riskFactor) \div (10 * stopLossPips)

\* [raised, trade, stopLossPips, replies]: the exception raised if any, the dict
\* trade as the call leaves it (it is mutated in place), and the replies sent
GetTradeInformation(trade, balance) ==
    IF Multiplier(trade) = 0
    THEN [raised |-> "ValueError", trade |-> trade, stopLossPips |-> 0, replies |-> <<>>]
    ELSE IF ~trade.Entry.isFloat
    THEN [raised |-> "TypeError", trade |-> trade, stopLossPips |-> 0, replies |-> <<>>]
    ELSE IF StopLossPips(trade) = 0
    THEN [raised |-> "ZeroDivisionError", trade |-> trade, stopLossPips |-> 0,
          replies |-> <<>>]
    ELSE [raised       |-> "",
          trade        |-> [trade EXCEPT
                               !.sized = TRUE,
                               !.PositionSize =
                                   PositionSizeOf(balance, trade.RiskFactor, StopLossPips(trade)),
                               !.TP = <<AutoTakeProfitPips * Scale>>],
          stopLossPips |-> StopLossPips(trade),
          replies      |-> <<"table">>]

-----------------------------------------------------------------------------
(* The inputs drawn: message texts, account balances, risk factors.        *)

Signals ==
    {"Buy Limit EURUSD\nEntry 1.2000\nSL 1.1950\nTP 1.2050",
     "sell limit eurusd\nEntry 1.2000\nSL 1.2050\nTP1 1.1950\nTP2 1.1900",
     "Buy Stop USDJPY\nEntry 150.25\nSL 149.75\nTP 151.25",
     "Sell Stop XAUUSD\nEntry 2000.00\nSL 2005.00\nTP 1990.00",
     "Buy Limit EURUSD\nEntry 1.2000\nSL 1.2000\nTP 1.2050",
     "Buy Limit EURUSD\nEntry 1.20000\nSL 1.20004\nTP 1.2050",
     "Buy EURUSD\nEntry NOW\nSL 1.1950\nTP 1.2050",
     "Sell XAUUSD\nEntry NOW\nSL 2005.00\nTP 1990.00",
     "Hold EURUSD\nEntry 1.2000\nSL 1.1950\nTP 1.2050",
     "Buy Limit EURXXX\nEntry 1.2000\nSL 1.1950\nTP 1.2050",
     "Buy Limit EURUSD\nEntry abc\nSL 1.1950\nTP 1.2050",
     "Buy Limit EURUSD\nEntry 1.2000",
     "Sell Stop GBPUSD\nEntry 1.2500\nSL 1.2533\nTP 1.2400",
     "SELL STOP gbpjpy\nEntry 185.10\nSL 185.47\nTP 184.00",
     "Buy EURUSD\nEntry 1.2000\nSL 1.1950\nTP 1.2050",
     "yes"}

Commands == {"/start", "/yes", "/YES", "/no", "/help", "/stop"}

Updates == Signals \cup Commands

\* the balances an account reports, in units of the account currency
BalanceStep == 5000
MaxBalanceSteps == 2
Balances == {k * BalanceStep : k \in 1..MaxBalanceSteps}

\* RISK_FACTOR = float(os.environ.get("RISK_FACTOR")), in percent
RiskFactors == {1, 2, 100}

\* ParseSignal of every text drawn, computed once
Parsed == [text \in Updates, rf \in RiskFactors |-> ParseSignal(text, rf)]

-----------------------------------------------------------------------------
(* The callbacks.  Each is the record of what one call does:               *)
(*   ret       the state it returns (the state it was called in when it    *)
(*             raises or, like help_command, is no part of the             *)
(*             conversation),                                              *)
(*   raised    the exception it lets escape ("" when it returns),          *)
(*   user_data context.user_data when it ends,                             *)
(*   replies   the messages it sent,                                       *)
(*   runs      the invocations of ConnectMetaTrader it made.               *)

\* context.user_data['trade']: no such key, None, or a dict
NoKey == <<"absent">>
None == <<"None">>
Dict(t) == <<"dict", t>>
IsDict(v) == v[1] = "dict"

Float(x) == <<"float", x>>

Outcome(ret, raised, ud, replies, started) ==
    [ret |-> ret, raised |-> raised, user_data |-> ud, replies |-> replies, runs |-> started]

start == Outcome(CALCULATE, "", user_data, <<"welcome">>, <<>>)

help_command == Outcome(state, "", user_data, <<"help">>, <<>>)

\* calculate with line 266 run only when no order is pending yet
calculateKeepsPending(text) ==
    LET parsed == Parsed[text, RISK_FACTOR] IN
    IF parsed.raised # ""
    THEN Outcome(state, parsed.raised, user_data, <<>>, <<>>)
    ELSE IF parsed.trade # <<>>
    THEN LET trade  == parsed.trade[1]
             keep   == IsDict(user_data.trade)
             stored == IF keep THEN user_data ELSE [user_data EXCEPT !.trade = Dict(trade)]
         IN  IF user_data.balance = NoKey
             THEN Outcome(state, "KeyError", stored, <<>>, <<>>)
             ELSE LET info  == GetTradeInformation(trade, user_data.balance[2])
                      after == IF keep THEN user_data
                               ELSE [user_data EXCEPT !.trade = Dict(info.trade)]
                  IN  IF info.raised # ""
                      THEN Outcome(state, info.raised, after, info.replies, <<>>)
                      ELSE Outcome(DECISION, "", after, info.replies \o <<"enter?">>, <<>>)
    ELSE Outcome(CALCULATE, "", user_data, <<"parse error">>, <<>>)

calculate(text) ==
    LET parsed == Parsed[text, RISK_FACTOR] IN
    IF parsed.raised # ""
    THEN Outcome(state, parsed.raised, user_data, <<>>, <<>>)
    ELSE IF parsed.trade # <<>>
    THEN LET trade  == parsed.trade[1]
             stored == [user_data EXCEPT !.trade = Dict(trade)]
         IN  IF user_data.balance = NoKey
             THEN Outcome(state, "KeyError", stored, <<>>, <<>>)
             ELSE LET info == GetTradeInformation(trade, user_data.balance[2])
                      \* the dict stored at line 266 is the one line 269 mutates
                      after == [user_data EXCEPT !.trade = Dict(info.trade)]
                  IN  IF info.raised # ""
                      THEN Outcome(state, info.raised, after, info.replies, <<>>)
                      ELSE Outcome(DECISION, "", after, info.replies \o <<"enter?">>, <<>>)
    ELSE Outcome(CALCULATE, "", user_data, <<"parse error">>, <<>>)

\* `balance` is what api.metatrader.get_account().result() would report
yes(balance) ==
    IF ~NameDefined("api")
    THEN Outcome(state, "NameError", user_data, <<>>, <<>>)
    ELSE IF ~IsDict(user_data.trade)
    THEN Outcome(state, IF user_data.trade = NoKey THEN "KeyError" ELSE "TypeError",
                 user_data, <<>>, <<>>)
    ELSE LET info  == GetTradeInformation(user_data.trade[2], balance)
             after == [user_data EXCEPT !.trade = Dict(info.trade)]
         IN  IF info.raised # ""
             THEN Outcome(state, info.raised, after, info.replies, <<>>)
             ELSE Outcome(END, "", after, info.replies \o <<"executed">>, <<>>)

\* no that forgets line 325
noKeepsTrade == Outcome(END, "", user_data, <<"declined">>, <<>>)

no == Outcome(END, "", [user_data EXCEPT !.trade = None], <<"declined">>, <<>>)

\* the error handler of line 371, run by the dispatcher when a callback raises
error == <<"error">>

-----------------------------------------------------------------------------
(* The updates and the routing of main(): the ConversationHandler, then    *)
(* CommandHandler('help', help_command), in the dispatcher's one group.    *)

\* Filters.command: the text starts with a bot command
IsCommand(text) == Len(text) > 1 /\ Ch(text, 1) = "/"

\* the command of a command message, as CommandHandler compares it
CommandOf(text) == lower(SubSeq(split(text)[1], 2, Len(split(text)[1])))

\* a handler table whose DECISION state also takes text: calculate
HandlerForTextInDecision(s, text) ==
    IF s = END /\ IsCommand(text) /\ CommandOf(text) = "start" THEN "start"
    ELSE IF s \in {CALCULATE, DECISION} /\ ~IsCommand(text) THEN "calculate"
    ELSE IF s = DECISION /\ IsCommand(text) /\ CommandOf(text) = "yes" THEN "yes"
    ELSE IF s = DECISION /\ IsCommand(text) /\ CommandOf(text) = "no" THEN "no"
    ELSE IF IsCommand(text) /\ CommandOf(text) = "help" THEN "help_command"
    ELSE ""

\* the callback the dispatcher runs for an update in conversation state s
\* ("" when no handler takes it): entry_points when no conversation is
\* active, else states[s]; fallbacks is empty; then the help handler
HandlerFor(s, text) ==
    IF s = END /\ IsCommand(text) /\ CommandOf(text) = "start" THEN "start"
    ELSE IF s = CALCULATE /\ ~IsCommand(text) THEN "calculate"
    ELSE IF s = DECISION /\ IsCommand(text) /\ CommandOf(text) = "yes" THEN "yes"
    ELSE IF s = DECISION /\ IsCommand(text) /\ CommandOf(text) = "no" THEN "no"
    ELSE IF IsCommand(text) /\ CommandOf(text) = "help" THEN "help_command"
    ELSE ""

ConversationStates == {END, CALCULATE, DECISION}

\* HandlerFor of every state and text drawn, computed once
Routes == [s \in ConversationStates, text \in Updates |-> HandlerFor(s, text)]

\* the dispatcher after a callback: the conversation state is updated only
\* when the callback returned; an exception goes to the error handler
Handle(text, handler, out) ==
    /\ state' = IF out.raised = "" THEN out.ret ELSE state
    /\ user_data' = out.user_data
    /\ runs' = runs \o out.runs
    /\ last' = [update    |-> text,
                handler   |-> handler,
                from      |-> state,
                before    |-> user_data,
                raised    |-> out.raised,
                replies   |-> IF out.raised = "" THEN out.replies ELSE out.replies \o error,
                runs      |-> out.runs,
                prev      |-> [handler |-> last.handler]]
    /\ UNCHANGED <<RISK_FACTOR, nextConn>>

OnStart ==
    \E text \in Updates :
        /\ Routes[state, text] = "start"
        /\ Handle(text, "start", start)

OnSignal ==
    \E text \in Updates :
        /\ Routes[state, text] = "calculate"
        /\ Handle(text, "calculate", calculate(text))

OnYes ==
    \E text \in Updates, balance \in Balances :
        /\ Routes[state, text] = "yes"
        /\ Handle(text, "yes", yes(balance))

OnNo ==
    \E text \in Updates :
        /\ Routes[state, text] = "no"
        /\ Handle(text, "no", no)

OnHelp ==
    \E text \in Updates :
        /\ Routes[state, text] = "help_command"
        /\ Handle(text, "help_command", help_command)

\* an update no handler takes is dropped
Unhandled ==
    \E text \in Updates :
        /\ Routes[state, text] = ""
        /\ Handle(text, "", Outcome(state, "", user_data, <<>>, <<>>))

NoUpdate ==
    [update |-> "", handler |-> "", from |-> END, before |-> [trade |-> NoKey, balance |-> NoKey],
     raised |-> "", replies |-> <<>>, runs |-> <<>>,
     prev |-> [handler |-> ""]]

\* The dispatcher starts with no conversation.  context.user_data is the
\* per-user dict the framework hands to every callback; run.py stores 'trade'
\* in it and only reads 'balance', so what 'balance' holds is an input of the
\* conversation: no such key (a fresh dict), or a balance.
Init ==
    /\ state = END
    /\ \E b \in {NoKey} \cup {Float(x) : x \in Balances} :
           user_data = [trade |-> NoKey, balance |-> b]
    /\ RISK_FACTOR \in RiskFactors
    /\ last = [NoUpdate EXCEPT !.before = user_data]
    /\ runs = <<>>
    /\ nextConn = 0

Next == OnStart \/ OnSignal \/ OnYes \/ OnNo \/ OnHelp \/ Unhandled

Spec == Init /\ [][Next]_vars

-----------------------------------------------------------------------------
(* ConnectMetaTrader: one invocation, and the invocations it makes.  A run *)
(* is a coroutine; `pc` is the await it is suspended at:                   *)
(*   "called"                  not started yet                             *)
(*   "get_account"             line 192                                    *)
(*   "get_account_connection"  line 196                                    *)
(*   "gather"                  lines 199-202, waiting for its two children *)
(*   "done"                    returned, or ended by an exception          *)
(* `calls` lists the broker calls it made, `connection` is the connection  *)
(* line 196 obtained (0: none), `closed` whether the run closed it and     *)
(* `orders` the results of the orders it submitted.  Nothing in lines      *)
(* 179-207 closes a connection or submits an order, so no step sets them.  *)

\* invocations modelled at once; the recursion of lines 199-202 is cut here
MaxRuns == 5

\* what a broker call may do
BrokerOutcomes == {"ok", "error"}

\* the trade dicts ParseSignal returns for the texts drawn, before and after
\* GetTradeInformation
RunTrades ==
    LET parsedTrades == {Parsed[x].trade[1] :
                           x \in {y \in DOMAIN Parsed : Parsed[y].trade # <<>>}}
    IN  parsedTrades \cup
        {GetTradeInformation(t, b).trade : t \in parsedTrades, b \in Balances}

NewRun(trade, auto_trade, parent) ==
    [pc |-> "called", trade |-> trade, auto_trade |-> auto_trade, parent |-> parent,
     calls |-> <<>>, balance |-> 0, connection |-> 0, closed |-> FALSE,
     orders |-> <<>>, raised |-> "", ret |-> <<>>]

Children(rs, p) == {c \in 1..Len(rs) : rs[c].parent = p}

\* run i ends, returning (exc = "") or raising exc.  asyncio.gather hands the
\* first exception of a child to the awaiting parent, which has no handler
\* and ends with it; when the last child has returned, the parent goes on to
\* lines 204-207 and returns ConversationHandler.END.
RECURSIVE EndRun(_, _, _)
EndRun(rs, i, exc) ==
    LET ended == [rs EXCEPT ![i].pc = "done", ![i].raised = exc,
                            ![i].ret = IF exc = "" THEN <<END>> ELSE <<>>]
        p     == rs[i].parent
    IN  IF p = 0 \/ ended[p].pc # "gather" THEN ended
        ELSE IF exc # "" THEN EndRun(ended, p, exc)
        ELSE IF \A c \in Children(ended, p) : ended[c].pc = "done"
        THEN EndRun(ended, p, "")
        ELSE ended

\* lines 199-202 in run i: the arguments of the two calls are evaluated
\* first, and `context` is neither a local of ConnectMetaTrader nor a global
Gather(rs, i) ==
    IF ~NameDefined("context")
    THEN EndRun(rs, i, "NameError")
    ELSE IF ~IsDict(user_data.trade)
    THEN EndRun(rs, i, "TypeError")
    ELSE [rs EXCEPT ![i].pc = "gather"]
             \o <<NewRun(user_data.trade[2], TRUE, i), NewRun(user_data.trade[2], FALSE, i)>>

\* context.user_data['trade'] = None of line 205 has run: some run passed
\* its gather and returned
Line205Ran(rs) == \E i \in 1..Len(rs) : rs[i].ret # <<>>

RunFrame == UNCHANGED <<state, RISK_FACTOR, last>>

SetRuns(rs) ==
    /\ runs' = rs
    /\ user_data' = IF Line205Ran(rs) THEN [user_data EXCEPT !.trade = None] ELSE user_data

\* lines 188-192: api = MetaApi(...), then the first await
Begin ==
    \E i \in 1..Len(runs) :
        /\ runs[i].pc = "called"
        /\ SetRuns([runs EXCEPT ![i].pc = "get_account", ![i].calls = @ \o <<"MetaApi">>])
        /\ UNCHANGED nextConn
        /\ RunFrame

\* lines 192-196: get_account answers, balance = account['balance']
GetAccount ==
    \E i \in 1..Len(runs) :
        /\ runs[i].pc = "get_account"
        /\ \E outcome \in BrokerOutcomes, balance \in Balances :
               SetRuns(IF outcome = "ok"
                       THEN [runs EXCEPT ![i].pc = "get_account_connection",
                                         ![i].calls = @ \o <<"get_account">>,
                                         ![i].balance = balance]
                       ELSE EndRun([runs EXCEPT ![i].calls = @ \o <<"get_account">>],
                                   i, "Exception"))
        /\ UNCHANGED nextConn
        /\ RunFrame

\* lines 196-202: get_account_connection answers, then the gather
GetConnection ==
    \E i \in 1..Len(runs) :
        /\ runs[i].pc = "get_account_connection"
        /\ Len(runs) + 2 <= MaxRuns
        /\ \E outcome \in BrokerOutcomes :
               IF outcome = "ok"
               THEN /\ SetRuns(Gather([runs EXCEPT ![i].calls = @ \o <<"get_account_connection">>,
                                                   ![i].connection = nextConn + 1], i))
                    /\ nextConn' = nextConn + 1
               ELSE /\ SetRuns(EndRun([runs EXCEPT ![i].calls = @ \o <<"get_account_connection">>],
                                      i, "Exception"))
                    /\ UNCHANGED nextConn
        /\ RunFrame

\* a caller's ConnectMetaTrader(update, trade, auto_trade) for a pending trade
InitRun ==
    /\ state = DECISION
    /\ RISK_FACTOR \in RiskFactors
    /\ nextConn = 0
    /\ \E trade \in RunTrades, auto_trade \in BOOLEAN :
           /\ trade.RiskFactor = RISK_FACTOR
           /\ user_data = [trade |-> Dict(trade), balance |-> NoKey]
           /\ runs = <<NewRun(trade, auto_trade, 0)>>
           /\ last = [NoUpdate EXCEPT !.before = user_data]

NextRun == Begin \/ GetAccount \/ GetConnection

SpecRun == InitRun /\ [][NextRun]_vars

\* every broker call awaited at lines 192 and 196 returns or fails, and the
\* event loop resumes the coroutine
SpecRunFair == SpecRun /\ WF_vars(NextRun)

-----------------------------------------------------------------------------
(* Properties of one invocation of ConnectMetaTrader (SpecRun)             *)

Done(i) == runs[i].pc = "done"

\* C1: every run that obtained a broker connection has closed it when the
\* run ends, whether it returned or raised: no run ends with its session open.
C1_SessionReleased ==
    \A i \in 1..Len(runs) : (Done(i) /\ runs[i].connection # 0) => runs[i].closed

\* C2: a run for an order with two take-profit legs that connected ends with
\* one result per leg in its report, leg 1's result kept whatever leg 2 did,
\* and with its session closed.
C2_PerLegResults ==
    \A i \in 1..Len(runs) :
        (Done(i) /\ runs[i].connection # 0 /\ Len(runs[i].trade.TP) = 2)
            => /\ Len(runs[i].orders) = 2
               /\ runs[i].closed

\* the orchestrator's states in their order, by the broker call that enters
\* each: Created, Deploying, Connecting, Synchronizing, PriceResolution,
\* Submitting, Closed
StateOrder ==
    <<"MetaApi", "get_account", "get_account_connection", "wait_synchronized",
      "get_symbol_price", "create_order", "close">>

Rank(call) == CHOOSE k \in 1..Len(StateOrder) : StateOrder[k] = call

\* C3: a run's calls follow the order of the orchestrator's states, none is
\* made twice, and a run that connected and has ended, by a failure or not,
\* ended in Closed.
C3_StatesInOrder ==
    \A i \in 1..Len(runs) :
        /\ \A j, k \in 1..Len(runs[i].calls) :
               j < k => Rank(runs[i].calls[j]) < Rank(runs[i].calls[k])
        /\ (Done(i) /\ runs[i].connection # 0) => Last(runs[i].calls) = "close"

Active == {i \in 1..Len(runs) : ~Done(i)}

-----------------------------------------------------------------------------
(* Properties of the conversation (Spec)                                   *)

IsConfirm(text) == IsCommand(text) /\ CommandOf(text) = "yes"

IsDecline(text) == IsCommand(text) /\ CommandOf(text) = "no"

Pending == IsDict(user_data.trade)

WasPending == IsDict(last.before.trade)

\* C4: after a confirm in DECISION with an order pending, ConnectMetaTrader
\* has been invoked with that order and the conversation is in CALCULATE.
C4_ConfirmExecutes ==
    (last.from = DECISION /\ IsConfirm(last.update) /\ WasPending)
        => /\ Len(last.runs) = 1
           /\ last.runs[1].trade = last.before.trade[2]
           /\ state = CALCULATE

\* C5 as stated: after a decline in DECISION the slot is empty, no run was
\* started and the conversation is in CALCULATE.
C5_DeclineToCalculate ==
    (last.from = DECISION /\ IsDecline(last.update))
        => /\ user_data.trade = None
           /\ last.runs = <<>>
           /\ state = CALCULATE

\* C5 amended: after a decline in DECISION the slot is empty (None), no run
\* was started, nothing was raised and the conversation has ended (END).
C5_DeclineEnds ==
    (last.from = DECISION /\ IsDecline(last.update))
        => /\ last.handler = "no"
           /\ user_data.trade = None
           /\ last.runs = <<>> /\ runs = <<>>
           /\ last.raised = ""
           /\ state = END

\* a pending order was declined
C5_Witness ==
    /\ last.from = DECISION /\ IsDecline(last.update) /\ WasPending
    /\ user_data.trade = None /\ state = END

\* C6: in DECISION an input that is neither confirm nor decline leaves the
\* conversation state and the pending order as they were and starts no run.
C6_OtherInputIgnored ==
    (last.from = DECISION /\ ~IsConfirm(last.update) /\ ~IsDecline(last.update))
        => /\ state = DECISION
           /\ user_data = last.before
           /\ last.runs = <<>> /\ runs = <<>>

\* a signal text arrived while an order awaited confirmation
C6_Witness ==
    /\ last.from = DECISION /\ last.update \in Signals /\ WasPending
    /\ state = DECISION /\ Pending

\* a text ParseSignal returns a trade for
ValidSignal(text) ==
    /\ text \in Signals
    /\ Parsed[text, RISK_FACTOR].raised = ""
    /\ Parsed[text, RISK_FACTOR].trade # <<>>

\* the order a dict describes: what ParseSignal read, less what sizing adds
OrderOf(t) == <<t.OrderType, t.Symbol, t.Entry, t.StopLoss>>

\* the slot holds the order of the last update's text
HoldsNewOrder ==
    /\ Pending
    /\ OrderOf(user_data.trade[2]) = OrderOf(Parsed[last.update, RISK_FACTOR].trade[1])

\* C7 as stated: the slot holds one order at most, and a valid signal that
\* arrives while an order is pending replaces that order.
C7_NewSignalReplaces ==
    /\ user_data.trade \in {NoKey, None} \/ Pending
    /\ (ValidSignal(last.update) /\ WasPending) => HoldsNewOrder

\* C7 amended: the slot holds one order at most; a valid signal that arrives
\* in CALCULATE replaces what the slot holds, and one that arrives in
\* DECISION, or when no conversation is active, leaves the slot as it was.
C7_SignalReplacesInCalculate ==
    /\ user_data.trade \in {NoKey, None} \/ Pending
    /\ ValidSignal(last.update) =>
           IF last.from = CALCULATE THEN HoldsNewOrder ELSE user_data = last.before

\* a valid signal replaced a different order that was pending
C7_Witness ==
    /\ ValidSignal(last.update) /\ WasPending /\ last.from = CALCULATE
    /\ HoldsNewOrder
    /\ OrderOf(last.before.trade[2]) # OrderOf(user_data.trade[2])

\* C8: a confirm that directly follows a confirm handled by yes raises
\* nothing, starts no run and leaves the conversation state as it was.
C8_SecondConfirmNoOp ==
    (IsConfirm(last.update) /\ last.prev.handler = "yes")
        => /\ last.raised = ""
           /\ last.runs = <<>>
           /\ state = last.from

\* the last update was a text whose sizing found a stop-loss distance of 0 pips
SizedZeroDistance ==
    /\ last.handler = "calculate"
    /\ ValidSignal(last.update)
    /\ user_data.balance # NoKey
    /\ Parsed[last.update, RISK_FACTOR].trade[1].Entry.isFloat
    /\ StopLossPips(Parsed[last.update, RISK_FACTOR].trade[1]) = 0

\* C10: sizing an order whose stop-loss distance rounds to 0 pips never
\* divides by stopLossPips (no ZeroDivisionError) and produces no position size.
C10_ZeroRiskRefused ==
    SizedZeroDistance
        => /\ last.raised # "ZeroDivisionError"
           /\ ~user_data.trade[2].sized

-----------------------------------------------------------------------------
(* Properties of sizing (Spec)                                             *)

\* the last update was a signal that calculate parsed and sized
Sized ==
    /\ last.handler = "calculate" /\ last.raised = ""
    /\ Pending /\ user_data.trade[2].sized

-----------------------------------------------------------------------------
(* Properties of parsing (Spec)                                            *)

\* line 0 of the last update's text, in lower case
FirstLine == lower(splitlines(last.update)[1])

Has(phrase) == Contains(FirstLine, phrase)

\* calculate answered that the signal could not be parsed and stored nothing
Rejected ==
    /\ last.raised = ""
    /\ last.replies = <<"parse error">>
    /\ user_data = last.before
    /\ state = CALCULATE

\* C12: the order type of a parsed signal is a phrase its first line
\* contains, Buy only when the line contains neither Buy Limit nor Buy Stop
\* and Sell only when it contains neither Sell Limit nor Sell Stop; a first
\* line that contains none of the six phrases is rejected.
C12_MostSpecificPhrase ==
    last.handler = "calculate" =>
        /\ (~Has("buy") /\ ~Has("sell")) => Rejected
        /\ ValidSignal(last.update) =>
               LET type == user_data.trade[2].OrderType IN
               /\ Pending
               /\ \/ type = "Buy Limit"  /\ Has("buy limit")
                  \/ type = "Sell Limit" /\ Has("sell limit")
                  \/ type = "Buy Stop"   /\ Has("buy stop")
                  \/ type = "Sell Stop"  /\ Has("sell stop")
                  \/ type = "Buy"  /\ Has("buy")  /\ ~Has("buy limit")  /\ ~Has("buy stop")
                  \/ type = "Sell" /\ Has("sell") /\ ~Has("sell limit") /\ ~Has("sell stop")

\* a first line with Buy Limit, which contains Buy too, was read as Buy Limit
C12_Witness ==
    /\ last.handler = "calculate" /\ ValidSignal(last.update)
    /\ Has("buy limit") /\ Has("buy")
    /\ Pending /\ user_data.trade[2].OrderType = "Buy Limit"

\* the last token of line 0 of the last update's text, upper-cased
LastTokenUpper == upper(Last(split(splitlines(last.update)[1])))

\* the last token of line 0 is not written in upper case
TypedInLowerCase == Last(split(splitlines(last.update)[1])) # LastTokenUpper

C13_UnknownSymbolSeen ==
    /\ last.handler = "calculate" /\ (Has("buy") \/ Has("sell"))
    /\ LastTokenUpper \notin SYMBOLS /\ Rejected

\* C14: a text that is not a well-formed signal is answered without an
\* exception, and leaves the conversation in CALCULATE.
C14_ParseTotal ==
    (last.handler = "calculate" /\ ~ValidSignal(last.update)) =>
        /\ last.raised = ""
        /\ state = CALCULATE

\* the keyword of an entry line that asks for immediate execution (line 87)
AtMarket == "NOW"

\* C15: an accepted order has the immediate-execution keyword as its entry
\* exactly when its type is Buy or Sell; any other entry is a decimal.
C15_MarketEntryIsKeyword ==
    (last.handler = "calculate" /\ ValidSignal(last.update)) =>
        /\ Pending
        /\ IsMarket(user_data.trade[2].OrderType)
               <=> /\ ~user_data.trade[2].Entry.isFloat
                   /\ upper(user_data.trade[2].Entry.str) = AtMarket

-----------------------------------------------------------------------------
(* Market orders in ConnectMetaTrader (SpecRun)                            *)

Called(i, call) == \E k \in 1..Len(runs[i].calls) : runs[i].calls[k] = call

\* C16: a run for a Buy or Sell order that connected has asked for a live
\* quote by the time it ends, and it ends either with InvertedLevels and no
\* order submitted or without that error.
C16_MarketEntryResolved ==
    \A i \in 1..Len(runs) :
        (Done(i) /\ runs[i].connection # 0 /\ IsMarket(runs[i].trade.OrderType))
            => /\ Called(i, "get_symbol_price")
               /\ runs[i].raised = "InvertedLevels" => runs[i].orders = <<>>

-----------------------------------------------------------------------------
(* Properties of sizing (Spec)                                             *)

\* the order of the worked example: entry 1.2000, stop loss 1.1950, EURUSD
ExampleSignal == "Buy Limit EURUSD\nEntry 1.2000\nSL 1.1950\nTP 1.2050"

\* calculate has handled the example with balance 10,000 and a risk of 1 %
ExampleHandled ==
    /\ last.handler = "calculate"
    /\ last.update = ExampleSignal
    /\ last.before.balance = Float(10000)
    /\ RISK_FACTOR = 1

\* what GetTradeInformation computed for the last signal
LastInfo ==
    GetTradeInformation(Parsed[last.update, RISK_FACTOR].trade[1], last.before.balance[2])

\* C17 as stated: the example yields 500 pips and 0.04 lots.
C17_ExampleAsStated ==
    ExampleHandled =>
        /\ Multiplier(Parsed[last.update, RISK_FACTOR].trade[1]) * 10000 = Scale
        /\ LastInfo.stopLossPips = 500
        /\ Pending /\ user_data.trade[2].PositionSize = 4

\* C17: sizing the example uses a pip size of 0.0001 and yields a stop
\* distance of 50 pips and a position size of 0.20 lots.
C17_Example ==
    ExampleHandled =>
        /\ last.raised = ""
        /\ Multiplier(Parsed[last.update, RISK_FACTOR].trade[1]) * 10000 = Scale
        /\ LastInfo.stopLossPips = 50
        /\ Pending /\ user_data.trade[2].sized
        /\ user_data.trade[2].PositionSize = 20

C17_Witness == ExampleHandled /\ Sized /\ state = DECISION

\* C18: sizing leaves the take-profit prices of the parsed order as they
\* were parsed, one per leg.
C18_TakeProfitsKept ==
    Sized => user_data.trade[2].TP = Parsed[last.update, RISK_FACTOR].trade[1].TP

\* C19: the slot holds an order exactly when the conversation is in DECISION.
C19_PendingIffDecision == Pending <=> state = DECISION

-----------------------------------------------------------------------------
(* Termination of ConnectMetaTrader (SpecRunFair)                          *)

\* the awaits of lines 192 and 196 and the call before them
MaxCalls == 3

\* C20: an invocation of ConnectMetaTrader ends, after three calls at most,
\* and no other run is ever started from it.
C20_Terminates ==
    /\ <>[](\A i \in 1..Len(runs) : Done(i))
    /\ [](Len(runs) = 1 /\ Len(runs[1].calls) <= MaxCalls)

\* the invocation went through every call and ended, alone
C20_Witness ==
    /\ Len(runs) = 1 /\ Done(1)
    /\ Len(runs[1].calls) = MaxCalls
    /\ runs[1].raised = "NameError"

====
